---- MODULE Spec2Model ----
(***************************************************************************)
(* log4cplus filter chain (src/filter.cxx): the seven Filter variants'     *)
(* decide, Filter::appendFilter and the chain evaluator checkFilter.       *)
(*                                                                         *)
(* Log levels are modelled by their rank (the code only uses ==, < and >   *)
(* on them); NOT_SET_LOG_LEVEL lies below every level.  Strings are        *)
(* sequences of characters.                                                *)
(***************************************************************************)
EXTENDS Integers, Sequences, FiniteSets, TLC

\* ---------------------------------------------------------------- bounds
MaxLevel == 3
MaxMsgLen == 2
MaxCtxLen == 2
NumFilters == 3
NumThreads == 2
NumShared == 2
MaxLog == 4

\* ------------------------------------------------------------- constants
NOT_SET_LOG_LEVEL == -1
INFO_LOG_LEVEL == 0
WARN_LOG_LEVEL == 1
ERROR_LOG_LEVEL == 2
FATAL_LOG_LEVEL == 3
npos == -1

DENY == "DENY"
NEUTRAL == "NEUTRAL"
ACCEPT == "ACCEPT"
FilterResult == {DENY, NEUTRAL, ACCEPT}

Null == 0
Threads == 1..NumThreads
MainThread == CHOOSE t \in Threads : \A u \in Threads : t <= u

\* --------------------------------------------------------------- strings
MsgAlphabet == {"a", "b"}
CtxAlphabet == {"a"}

StringsOver(alphabet, n) == UNION {[1..k -> alphabet] : k \in 0..n}

MsgStrings == StringsOver(MsgAlphabet, MaxMsgLen)
CtxStrings == StringsOver(CtxAlphabet, MaxCtxLen)

empty(s) == Len(s) = 0

\* std::basic_string::find: the lowest offset at which s occurs in m, or npos
find(m, s) ==
    LET hits == {i \in 0..(Len(m) - Len(s)) : SubSeq(m, i + 1, i + Len(s)) = s}
    IN  IF hits = {} THEN npos
        ELSE CHOOSE i \in hits : \A j \in hits : i <= j

\* ---------------------------------------------------------------- events
LogLevels == 0..MaxLevel
EventLevels == {NOT_SET_LOG_LEVEL} \cup LogLevels

\* The mapped diagnostic context of an event: a partial map from keys to
\* values.  decide performs at most one lookup, so maps with at most one
\* entry cover a hit, a miss beside another key, and the empty map.
MdcMaps ==
    {<<>>} \cup UNION {[{k} -> CtxStrings] : k \in CtxStrings}

Events ==
    [level : EventLevels, message : MsgStrings, ndc : CtxStrings, mdc : MdcMaps]

getLogLevel(event) == event.level
getMessage(event) == event.message
getNDC(event) == event.ndc
\* InternalLoggingEvent::getMDC: the value stored under key, or the empty
\* string when the map holds none
getMDC(event, key) ==
    IF key \in DOMAIN event.mdc THEN event.mdc[key] ELSE <<>>

\* -------------------------------------------------------- filter objects
\* The callables a FunctionFilter is constructed with: the three constant
\* predicates and the lambda of the unit test.
Functions == {"deny", "neutral", "accept", "atLeastInfo"}

function(f, event) ==
    CASE f = "deny" -> DENY
      [] f = "neutral" -> NEUTRAL
      [] f = "accept" -> ACCEPT
      [] f = "atLeastInfo" ->
            IF getLogLevel(event) >= INFO_LOG_LEVEL THEN ACCEPT ELSE DENY

DenyAllFilters == [kind : {"DenyAll"}]
LogLevelMatchFilters ==
    [kind : {"LogLevelMatch"}, acceptOnMatch : BOOLEAN,
     logLevelToMatch : EventLevels]
LogLevelRangeFilters ==
    [kind : {"LogLevelRange"}, acceptOnMatch : BOOLEAN,
     logLevelMin : EventLevels, logLevelMax : EventLevels]
StringMatchFilters ==
    [kind : {"StringMatch"}, acceptOnMatch : BOOLEAN, stringToMatch : MsgStrings]
FunctionFilters == [kind : {"Function"}, function : Functions]
NDCMatchFilters ==
    [kind : {"NDCMatch"}, acceptOnMatch : BOOLEAN, neutralOnEmpty : BOOLEAN,
     ndcToMatch : CtxStrings]
MDCMatchFilters ==
    [kind : {"MDCMatch"}, acceptOnMatch : BOOLEAN, neutralOnEmpty : BOOLEAN,
     mdcKeyToMatch : CtxStrings, mdcValueToMatch : CtxStrings]

Filters ==
    DenyAllFilters \cup LogLevelMatchFilters \cup LogLevelRangeFilters
    \cup StringMatchFilters \cup FunctionFilters \cup NDCMatchFilters
    \cup MDCMatchFilters

\* The default constructors (init()).
DenyAllFilter_new == [kind |-> "DenyAll"]
LogLevelMatchFilter_init ==
    [kind |-> "LogLevelMatch", acceptOnMatch |-> TRUE,
     logLevelToMatch |-> NOT_SET_LOG_LEVEL]
LogLevelRangeFilter_init ==
    [kind |-> "LogLevelRange", acceptOnMatch |-> TRUE,
     logLevelMin |-> NOT_SET_LOG_LEVEL, logLevelMax |-> NOT_SET_LOG_LEVEL]
StringMatchFilter_init ==
    [kind |-> "StringMatch", acceptOnMatch |-> TRUE, stringToMatch |-> <<>>]
NDCMatchFilter_init ==
    [kind |-> "NDCMatch", acceptOnMatch |-> TRUE, neutralOnEmpty |-> TRUE,
     ndcToMatch |-> <<>>]
MDCMatchFilter_init ==
    [kind |-> "MDCMatch", acceptOnMatch |-> TRUE, neutralOnEmpty |-> TRUE,
     mdcKeyToMatch |-> <<>>, mdcValueToMatch |-> <<>>]

\* ---------------------------------------------------------------- decide
\* Every decide yields its FilterResult and the getMDC calls it made on the
\* event (the keys looked up, in order).
Decided(result, lookups) == [result |-> result, lookups |-> lookups]

\* mutant: DenyAll expresses no opinion
DenyAllFilter_decide_neutral(this, event) == Decided(NEUTRAL, <<>>)

DenyAllFilter_decide(this, event) == Decided(DENY, <<>>)

\* mutant: a non-match yields the opposite verdict instead of NEUTRAL
LogLevelMatchFilter_decide_opposite(this, event) ==
    IF this.logLevelToMatch = NOT_SET_LOG_LEVEL THEN Decided(NEUTRAL, <<>>)
    ELSE IF this.logLevelToMatch = getLogLevel(event)
    THEN Decided(IF this.acceptOnMatch THEN ACCEPT ELSE DENY, <<>>)
    ELSE Decided(IF this.acceptOnMatch THEN DENY ELSE ACCEPT, <<>>)

LogLevelMatchFilter_decide(this, event) ==
    IF this.logLevelToMatch = NOT_SET_LOG_LEVEL THEN Decided(NEUTRAL, <<>>)
    ELSE LET matchOccured == (this.logLevelToMatch = getLogLevel(event))
         IN  IF matchOccured
             THEN Decided(IF this.acceptOnMatch THEN ACCEPT ELSE DENY, <<>>)
             ELSE Decided(NEUTRAL, <<>>)

\* mutant: the bounds are exclusive (<= and >= for < and >)
LogLevelRangeFilter_decide_exclusive(this, event) ==
    LET eventLogLevel == getLogLevel(event)
    IN  IF this.logLevelMin # NOT_SET_LOG_LEVEL /\ eventLogLevel <= this.logLevelMin
        THEN Decided(DENY, <<>>)
        ELSE IF this.logLevelMax # NOT_SET_LOG_LEVEL
                /\ eventLogLevel >= this.logLevelMax
        THEN Decided(DENY, <<>>)
        ELSE IF this.acceptOnMatch THEN Decided(ACCEPT, <<>>)
        ELSE Decided(NEUTRAL, <<>>)

LogLevelRangeFilter_decide(this, event) ==
    LET eventLogLevel == getLogLevel(event)
    IN  IF this.logLevelMin # NOT_SET_LOG_LEVEL /\ eventLogLevel < this.logLevelMin
        THEN Decided(DENY, <<>>)
        ELSE IF this.logLevelMax # NOT_SET_LOG_LEVEL
                /\ eventLogLevel > this.logLevelMax
        THEN Decided(DENY, <<>>)
        ELSE IF this.acceptOnMatch THEN Decided(ACCEPT, <<>>)
        ELSE Decided(NEUTRAL, <<>>)

\* mutant: the stringToMatch.empty() guard is missing
StringMatchFilter_decide_unguarded(this, event) ==
    LET message == getMessage(event)
    IN  IF empty(message)
        THEN Decided(NEUTRAL, <<>>)
        ELSE IF find(message, this.stringToMatch) = npos
        THEN Decided(NEUTRAL, <<>>)
        ELSE Decided(IF this.acceptOnMatch THEN ACCEPT ELSE DENY, <<>>)

\* mutant: the match is tested at offset 0 only
StringMatchFilter_decide_prefix(this, event) ==
    LET message == getMessage(event)
    IN  IF empty(this.stringToMatch) \/ empty(message)
        THEN Decided(NEUTRAL, <<>>)
        ELSE IF find(message, this.stringToMatch) # 0
        THEN Decided(NEUTRAL, <<>>)
        ELSE Decided(IF this.acceptOnMatch THEN ACCEPT ELSE DENY, <<>>)

StringMatchFilter_decide(this, event) ==
    LET message == getMessage(event)
    IN  IF empty(this.stringToMatch) \/ empty(message)
        THEN Decided(NEUTRAL, <<>>)
        ELSE IF find(message, this.stringToMatch) = npos
        THEN Decided(NEUTRAL, <<>>)
        ELSE Decided(IF this.acceptOnMatch THEN ACCEPT ELSE DENY, <<>>)

FunctionFilter_decide(this, event) ==
    Decided(function(this.function, event), <<>>)

\* mutant: a mismatch is NEUTRAL, as in the level and string filters
NDCMatchFilter_decide_neutralMismatch(this, event) ==
    LET ndcStr == getNDC(event)
    IN  IF this.neutralOnEmpty /\ (empty(this.ndcToMatch) \/ empty(ndcStr))
        THEN Decided(NEUTRAL, <<>>)
        ELSE IF ndcStr = this.ndcToMatch
        THEN Decided(IF this.acceptOnMatch THEN ACCEPT ELSE DENY, <<>>)
        ELSE Decided(NEUTRAL, <<>>)

NDCMatchFilter_decide(this, event) ==
    LET ndcStr == getNDC(event)
    IN  IF this.neutralOnEmpty /\ (empty(this.ndcToMatch) \/ empty(ndcStr))
        THEN Decided(NEUTRAL, <<>>)
        ELSE IF ndcStr = this.ndcToMatch
        THEN Decided(IF this.acceptOnMatch THEN ACCEPT ELSE DENY, <<>>)
        ELSE Decided(IF this.acceptOnMatch THEN DENY ELSE ACCEPT, <<>>)

\* mutant: getMDC is called before the configuration guard
MDCMatchFilter_decide_eagerLookup(this, event) ==
    LET mdcStr == getMDC(event, this.mdcKeyToMatch)
        looked == <<this.mdcKeyToMatch>>
    IN  IF this.neutralOnEmpty
           /\ (empty(this.mdcKeyToMatch) \/ empty(this.mdcValueToMatch))
        THEN Decided(NEUTRAL, looked)
        ELSE IF this.neutralOnEmpty /\ empty(mdcStr)
        THEN Decided(NEUTRAL, looked)
        ELSE IF mdcStr = this.mdcValueToMatch
        THEN Decided(IF this.acceptOnMatch THEN ACCEPT ELSE DENY, looked)
        ELSE Decided(IF this.acceptOnMatch THEN DENY ELSE ACCEPT, looked)

\* mutant: the guard on an empty looked-up value is missing
MDCMatchFilter_decide_noValueGuard(this, event) ==
    IF this.neutralOnEmpty
       /\ (empty(this.mdcKeyToMatch) \/ empty(this.mdcValueToMatch))
    THEN Decided(NEUTRAL, <<>>)
    ELSE LET mdcStr == getMDC(event, this.mdcKeyToMatch)
             looked == <<this.mdcKeyToMatch>>
         IN  IF mdcStr = this.mdcValueToMatch
             THEN Decided(IF this.acceptOnMatch THEN ACCEPT ELSE DENY, looked)
             ELSE Decided(IF this.acceptOnMatch THEN DENY ELSE ACCEPT, looked)

MDCMatchFilter_decide(this, event) ==
    IF this.neutralOnEmpty
       /\ (empty(this.mdcKeyToMatch) \/ empty(this.mdcValueToMatch))
    THEN Decided(NEUTRAL, <<>>)
    ELSE LET mdcStr == getMDC(event, this.mdcKeyToMatch)
             looked == <<this.mdcKeyToMatch>>
         IN  IF this.neutralOnEmpty /\ empty(mdcStr)
             THEN Decided(NEUTRAL, looked)
             ELSE IF mdcStr = this.mdcValueToMatch
             THEN Decided(IF this.acceptOnMatch THEN ACCEPT ELSE DENY, looked)
             ELSE Decided(IF this.acceptOnMatch THEN DENY ELSE ACCEPT, looked)

\* The virtual call filter->decide(event).
decide(this, event) ==
    CASE this.kind = "DenyAll" -> DenyAllFilter_decide(this, event)
      [] this.kind = "LogLevelMatch" -> LogLevelMatchFilter_decide(this, event)
      [] this.kind = "LogLevelRange" -> LogLevelRangeFilter_decide(this, event)
      [] this.kind = "StringMatch" -> StringMatchFilter_decide(this, event)
      [] this.kind = "Function" -> FunctionFilter_decide(this, event)
      [] this.kind = "NDCMatch" -> NDCMatchFilter_decide(this, event)
      [] this.kind = "MDCMatch" -> MDCMatchFilter_decide(this, event)

\* ----------------------------------------------------------------- state
VARIABLES
    filters,        \* the constructed filter objects: id -> configuration
    next,           \* Filter::next of every constructed filter (Null: empty)
    pc,             \* per thread: where its current call stands
    call,           \* per thread: the arguments of its current call
    currentFilter,  \* per thread: checkFilter's cursor / appendFilter's this
    ret,            \* per thread: the value its call returned
    consulted,      \* per thread: the filters decide was invoked on, in order
    lookups         \* per thread: the getMDC keys looked up, in order

vars == <<filters, next, pc, call, currentFilter, ret, consulted, lookups>>

NoCall == [op |-> "none"]
NoResult == "none"

Constructed == DOMAIN filters

ThreadsIdle ==
    /\ pc = [t \in Threads |-> "idle"]
    /\ call = [t \in Threads |-> NoCall]
    /\ currentFilter = [t \in Threads |-> Null]
    /\ ret = [t \in Threads |-> NoResult]
    /\ consulted = [t \in Threads |-> <<>>]
    /\ lookups = [t \in Threads |-> <<>>]

\* --------------------------------------------- direct decide on a filter
\* filter->decide(event), as the unit tests call it.
CallDecide(t, events) ==
    /\ pc[t] = "idle"
    /\ \E f \in Constructed, event \in events :
          /\ LET d == decide(filters[f], event)
             IN  /\ ret' = [ret EXCEPT ![t] = d.result]
                 /\ lookups' = [lookups EXCEPT ![t] = d.lookups]
          /\ call' = [call EXCEPT
                        ![t] = [op |-> "decide", this |-> f, event |-> event]]
          /\ consulted' = [consulted EXCEPT ![t] = <<f>>]
    /\ pc' = [pc EXCEPT ![t] = "decided"]
    /\ UNCHANGED <<filters, next, currentFilter>>

\* The caller takes the returned value; the call's frame is gone.
Return(t) ==
    /\ pc[t] \in {"decided", "checked", "appended"}
    /\ pc' = [pc EXCEPT ![t] = "idle"]
    /\ call' = [call EXCEPT ![t] = NoCall]
    /\ currentFilter' = [currentFilter EXCEPT ![t] = Null]
    /\ ret' = [ret EXCEPT ![t] = NoResult]
    /\ consulted' = [consulted EXCEPT ![t] = <<>>]
    /\ lookups' = [lookups EXCEPT ![t] = <<>>]
    /\ UNCHANGED <<filters, next>>

\* ------------------------------------------------------------ the chain
\* The filters reached from n along nxt, in link order (cut at a repeat).
RECURSIVE ChainFrom(_, _, _)
ChainFrom(nxt, n, seen) ==
    IF n = Null \/ n \in seen THEN <<>>
    ELSE <<n>> \o ChainFrom(nxt, nxt[n], seen \cup {n})

ChainIn(nxt, head) == ChainFrom(nxt, head, {})
Chain(head) == ChainIn(next, head)
Nodes(head) == {Chain(head)[i] : i \in 1..Len(Chain(head))}

\* new XxxFilter(...): a filter object with an empty next link.
Construct(t, configurations) ==
    /\ pc[t] = "idle"
    /\ Cardinality(Constructed) < NumFilters
    /\ \E c \in configurations :
          LET id == Cardinality(Constructed) + 1
          IN  /\ filters' = filters @@ (id :> c)
              /\ next' = next @@ (id :> Null)
    /\ UNCHANGED <<pc, call, currentFilter, ret, consulted, lookups>>

\* mutant: the filter is linked at `this` without walking to the tail
Filter_appendFilter_overwrites(this, filter) ==
    [returns |-> TRUE, next |-> [next EXCEPT ![this] = filter], callee |-> Null]

\* mutant: linking also stores the receiver in the appended filter's link
Filter_appendFilter_backLink(this, filter) ==
    IF next[this] = Null
    THEN [returns |-> TRUE,
          next |-> IF filter = Null THEN next
                   ELSE [next EXCEPT ![this] = filter, ![filter] = this],
          callee |-> Null]
    ELSE [returns |-> FALSE, next |-> next, callee |-> next[this]]

\* mutant: appending a filter to itself is refused
Filter_appendFilter_selfCheck(this, filter) ==
    IF filter = this
    THEN [returns |-> TRUE, next |-> next, callee |-> Null]
    ELSE IF next[this] = Null
         THEN [returns |-> TRUE, next |-> [next EXCEPT ![this] = filter],
               callee |-> Null]
         ELSE [returns |-> FALSE, next |-> next, callee |-> next[this]]

\* One activation of Filter::appendFilter on `this`: either it links filter
\* and returns, or it calls next->appendFilter(filter) (in tail position).
Filter_appendFilter(this, filter) ==
    IF next[this] = Null
    THEN [returns |-> TRUE, next |-> [next EXCEPT ![this] = filter],
          callee |-> Null]
    ELSE [returns |-> FALSE, next |-> next, callee |-> next[this]]

\* head->appendFilter(filter), for the uses the caller restricts itself to.
CallAppend(t, uses) ==
    /\ pc[t] = "idle"
    /\ \E head \in Constructed, filter \in Constructed \cup {Null} :
          /\ <<head, filter>> \in uses
          /\ call' = [call EXCEPT ![t] = [op |-> "appendFilter",
                                          this |-> head, filter |-> filter]]
          /\ currentFilter' = [currentFilter EXCEPT ![t] = head]
    /\ pc' = [pc EXCEPT ![t] = "append"]
    /\ UNCHANGED <<filters, next, ret, consulted, lookups>>

AppendStep(t) ==
    /\ pc[t] = "append"
    /\ LET a == Filter_appendFilter(currentFilter[t], call[t].filter)
       IN  /\ next' = a.next
           /\ IF a.returns
              THEN /\ pc' = [pc EXCEPT ![t] = "appended"]
                   /\ UNCHANGED currentFilter
              ELSE /\ currentFilter' = [currentFilter EXCEPT ![t] = a.callee]
                   /\ UNCHANGED pc
    /\ UNCHANGED <<filters, call, ret, consulted, lookups>>

\* mutant: an exhausted chain is denied
checkFilter_denyWhenExhausted(currentFilter_, event) ==
    IF currentFilter_ = Null
    THEN [returns |-> TRUE, result |-> DENY, currentFilter |-> Null,
          consulted |-> <<>>, lookups |-> <<>>]
    ELSE LET d == decide(filters[currentFilter_], event)
         IN  IF d.result # NEUTRAL
             THEN [returns |-> TRUE, result |-> d.result,
                   currentFilter |-> currentFilter_,
                   consulted |-> <<currentFilter_>>, lookups |-> d.lookups]
             ELSE [returns |-> FALSE, result |-> "none",
                   currentFilter |-> next[currentFilter_],
                   consulted |-> <<currentFilter_>>, lookups |-> d.lookups]

\* mutant: only ACCEPT ends the walk
checkFilter_stopsOnAcceptOnly(currentFilter_, event) ==
    IF currentFilter_ = Null
    THEN [returns |-> TRUE, result |-> ACCEPT, currentFilter |-> Null,
          consulted |-> <<>>, lookups |-> <<>>]
    ELSE LET d == decide(filters[currentFilter_], event)
         IN  IF d.result = ACCEPT
             THEN [returns |-> TRUE, result |-> d.result,
                   currentFilter |-> currentFilter_,
                   consulted |-> <<currentFilter_>>, lookups |-> d.lookups]
             ELSE [returns |-> FALSE, result |-> "none",
                   currentFilter |-> next[currentFilter_],
                   consulted |-> <<currentFilter_>>, lookups |-> d.lookups]

\* One evaluation of checkFilter's loop condition and body at currentFilter:
\* whether the function returns, with what, the cursor it goes on with, and
\* the decide call made.
checkFilter(currentFilter_, event) ==
    IF currentFilter_ = Null
    THEN [returns |-> TRUE, result |-> ACCEPT, currentFilter |-> Null,
          consulted |-> <<>>, lookups |-> <<>>]
    ELSE LET d == decide(filters[currentFilter_], event)
         IN  IF d.result # NEUTRAL
             THEN [returns |-> TRUE, result |-> d.result,
                   currentFilter |-> currentFilter_,
                   consulted |-> <<currentFilter_>>, lookups |-> d.lookups]
             ELSE [returns |-> FALSE, result |-> NoResult,
                   currentFilter |-> next[currentFilter_],
                   consulted |-> <<currentFilter_>>, lookups |-> d.lookups]

\* checkFilter(head, event); head may be absent.
CallCheck(t, events) ==
    /\ pc[t] = "idle"
    /\ \E head \in Constructed \cup {Null}, event \in events :
          /\ call' = [call EXCEPT ![t] = [op |-> "checkFilter",
                                          filter |-> head, event |-> event]]
          /\ currentFilter' = [currentFilter EXCEPT ![t] = head]
    /\ pc' = [pc EXCEPT ![t] = "check"]
    /\ UNCHANGED <<filters, next, ret, consulted, lookups>>

\* The record of a call's decide and getMDC invocations keeps its first
\* MaxLog entries (a walk round a cyclic chain makes them without end).
Logged(log, entries) ==
    IF Len(log) + Len(entries) <= MaxLog THEN log \o entries ELSE log

\* mutant: the walk moves each next link out of the filter it leaves
CheckStep_consumes(t) ==
    /\ pc[t] = "check"
    /\ LET c == checkFilter(currentFilter[t], call[t].event)
       IN  /\ consulted' = [consulted EXCEPT ![t] = Logged(@, c.consulted)]
           /\ lookups' = [lookups EXCEPT ![t] = Logged(@, c.lookups)]
           /\ currentFilter' = [currentFilter EXCEPT ![t] = c.currentFilter]
           /\ IF c.returns
              THEN /\ ret' = [ret EXCEPT ![t] = c.result]
                   /\ pc' = [pc EXCEPT ![t] = "checked"]
                   /\ UNCHANGED next
              ELSE /\ next' = [next EXCEPT ![currentFilter[t]] = Null]
                   /\ UNCHANGED <<ret, pc>>
    /\ UNCHANGED <<filters, call>>

\* mutant: the cursor is one static variable shared by all callers
CheckStep_sharedCursor(t) ==
    /\ pc[t] = "check"
    /\ LET c == checkFilter(currentFilter[t], call[t].event)
       IN  /\ consulted' = [consulted EXCEPT ![t] = Logged(@, c.consulted)]
           /\ lookups' = [lookups EXCEPT ![t] = Logged(@, c.lookups)]
           /\ currentFilter' = [u \in Threads |-> c.currentFilter]
           /\ IF c.returns
              THEN /\ ret' = [ret EXCEPT ![t] = c.result]
                   /\ pc' = [pc EXCEPT ![t] = "checked"]
              ELSE UNCHANGED <<ret, pc>>
    /\ UNCHANGED <<filters, next, call>>

CheckStep(t) ==
    /\ pc[t] = "check"
    /\ LET c == checkFilter(currentFilter[t], call[t].event)
       IN  /\ consulted' = [consulted EXCEPT ![t] = Logged(@, c.consulted)]
           /\ lookups' = [lookups EXCEPT ![t] = Logged(@, c.lookups)]
           /\ currentFilter' = [currentFilter EXCEPT ![t] = c.currentFilter]
           /\ IF c.returns
              THEN /\ ret' = [ret EXCEPT ![t] = c.result]
                   /\ pc' = [pc EXCEPT ![t] = "checked"]
              ELSE UNCHANGED <<ret, pc>>
    /\ UNCHANGED <<filters, next, call>>

\* ------------------------------------------------ the unit tests' fixtures
info_ev ==
    [level |-> INFO_LOG_LEVEL, message |-> <<"a", "b">>, ndc |-> <<>>,
     mdc |-> <<>>]
warn_ev ==
    [level |-> WARN_LOG_LEVEL, message |-> <<"b", "b">>, ndc |-> <<>>,
     mdc |-> <<>>]
TestEvents == {info_ev, warn_ev}

LogLevelMatchFilter_INFO ==
    [LogLevelMatchFilter_init EXCEPT !.logLevelToMatch = INFO_LOG_LEVEL]
LogLevelRangeFilter_WARN_ERROR ==
    [LogLevelRangeFilter_init EXCEPT !.acceptOnMatch = FALSE,
                                     !.logLevelMin = WARN_LOG_LEVEL,
                                     !.logLevelMax = ERROR_LOG_LEVEL]
TestFilters ==
    {DenyAllFilter_new, LogLevelMatchFilter_INFO, StringMatchFilter_init,
     LogLevelRangeFilter_WARN_ERROR}

\* ------------------------------------- building and evaluating chains
\* The chain is never made cyclic: the caller appends only a filter (or
\* nothing) whose own chain shares no node with the receiver's.
KeepsAcyclic(head, filter) ==
    filter = Null \/ Nodes(head) \cap Nodes(filter) = {}

AcyclicUses ==
    {u \in Constructed \X (Constructed \cup {Null}) : KeepsAcyclic(u[1], u[2])}

Init ==
    /\ filters = <<>>
    /\ next = <<>>
    /\ ThreadsIdle

Next ==
    \/ Construct(MainThread, TestFilters)
    \/ CallAppend(MainThread, AcyclicUses)
    \/ AppendStep(MainThread)
    \/ CallCheck(MainThread, TestEvents)
    \/ CheckStep(MainThread)
    \/ CallDecide(MainThread, TestEvents)
    \/ Return(MainThread)

Spec == Init /\ [][Next]_vars

\* ---------------------------------- concurrent readers of a shared chain
\* The chain is built and appended to by one thread while no call of
\* another thread is in progress or holds a result (the publish barrier);
\* decide and checkFilter are then called by all threads concurrently.
mdc_error_ev ==
    [level |-> ERROR_LOG_LEVEL, message |-> <<"a", "b">>, ndc |-> <<>>,
     mdc |-> (<<"a">> :> <<"a", "a">>)]
MDCMatchFilter_KeyToMatch ==
    [MDCMatchFilter_init EXCEPT !.mdcKeyToMatch = <<"a">>,
                                !.mdcValueToMatch = <<"a", "a">>]

SharedFilters ==
    {DenyAllFilter_new, MDCMatchFilter_KeyToMatch, StringMatchFilter_init}
SharedEvents == {mdc_error_ev}

Quiescent == \A t \in Threads : pc[t] = "idle"
Published == pc[MainThread] # "append"

NextConc ==
    \/ /\ Quiescent
       /\ Cardinality(Constructed) < NumShared
       /\ Construct(MainThread, SharedFilters)
    \/ /\ Quiescent
       /\ CallAppend(MainThread, AcyclicUses)
    \/ AppendStep(MainThread)
    \/ \E t \in Threads : Published /\ CallCheck(t, SharedEvents)
    \/ \E t \in Threads : CheckStep(t)
    \/ \E t \in Threads : Published /\ CallDecide(t, SharedEvents)
    \/ \E t \in Threads : Return(t)

\* A thread inside checkFilter keeps running.
SpecConc ==
    Init /\ [][NextConc]_vars /\ \A t \in Threads : WF_vars(CheckStep(t))

\* ------------------------------------------- callers that misuse append
\* The filters and the event of chains whose links may become cyclic.
LinkFilters == {DenyAllFilter_new, StringMatchFilter_init}
LinkEvents == {info_ev}

\* The caller never appends a filter to itself or to a node reachable from
\* that filter: the receiver is not in the appended filter's chain.
ProvisoUses ==
    {u \in Constructed \X (Constructed \cup {Null}) :
        u[2] = Null \/ u[1] \notin Nodes(u[2])}

NextProviso ==
    \/ Construct(MainThread, LinkFilters)
    \/ CallAppend(MainThread, ProvisoUses)
    \/ AppendStep(MainThread)
    \/ CallCheck(MainThread, LinkEvents)
    \/ CheckStep(MainThread)
    \/ Return(MainThread)

\* A call in progress keeps running.
SpecProviso ==
    /\ Init /\ [][NextProviso]_vars
    /\ WF_vars(AppendStep(MainThread)) /\ WF_vars(CheckStep(MainThread))

\* The caller appends any filter to any filter.
AnyUses == Constructed \X (Constructed \cup {Null})

NextMisuse ==
    \/ Construct(MainThread, LinkFilters)
    \/ CallAppend(MainThread, AnyUses)
    \/ AppendStep(MainThread)
    \/ CallCheck(MainThread, LinkEvents)
    \/ CheckStep(MainThread)
    \/ Return(MainThread)

SpecMisuse ==
    /\ Init /\ [][NextMisuse]_vars
    /\ WF_vars(AppendStep(MainThread)) /\ WF_vars(CheckStep(MainThread))

\* ----------------------------------- one filter under every configuration
InitDecide ==
    /\ \E c \in Filters : filters = (1 :> c)
    /\ next = (1 :> Null)
    /\ ThreadsIdle

NextDecide ==
    \/ CallDecide(MainThread, Events)
    \/ Return(MainThread)

SpecDecide == InitDecide /\ [][NextDecide]_vars

\* -------------------------------------------- claims about the chain
ResultOf(f, event) == decide(filters[f], event).result

\* The positions of chain whose filter gives a verdict on event.
Decisive(chain, event) ==
    {i \in 1..Len(chain) : ResultOf(chain[i], event) # NEUTRAL}

First(S) == CHOOSE i \in S : \A j \in S : i <= j

Checking(t) == pc[t] \in {"check", "checked"}

\* C1: checkFilter returns the decide result of the first filter in link
\* order whose result is not NEUTRAL, and ACCEPT when the head is absent or
\* every filter returns NEUTRAL; what it returns is ACCEPT or DENY.
C1_CheckFilterVerdict ==
    \A t \in Threads :
        pc[t] = "checked" =>
            LET chain == Chain(call[t].filter)
                decisive == Decisive(chain, call[t].event)
            IN  /\ ret[t] \in {ACCEPT, DENY}
                /\ ret[t] = IF decisive = {} THEN ACCEPT
                            ELSE ResultOf(chain[First(decisive)], call[t].event)

\* a chain of three filters, all NEUTRAL on the event
C1_Witness ==
    \E t \in Threads :
        /\ pc[t] = "checked"
        /\ Len(Chain(call[t].filter)) = 3
        /\ Decisive(Chain(call[t].filter), call[t].event) = {}
        /\ ret[t] = ACCEPT

\* C2: during one checkFilter call decide is invoked on the filters in link
\* order starting at the head, each at most once, and on no filter after
\* the first one that returned ACCEPT or DENY.
C2_ConsultedInOrder ==
    \A t \in Threads :
        Checking(t) =>
            LET chain == Chain(call[t].filter)
                c == consulted[t]
            IN  /\ Len(c) <= Len(chain)
                /\ c = SubSeq(chain, 1, Len(c))
                /\ \A i, j \in 1..Len(c) : c[i] = c[j] => i = j
                /\ \A i \in 1..(Len(c) - 1) :
                      ResultOf(c[i], call[t].event) = NEUTRAL
                /\ pc[t] = "checked" /\ Decisive(chain, call[t].event) # {}
                      => Len(c) = First(Decisive(chain, call[t].event))

\* the chain [StringMatch (default), DenyAll, LogLevelMatch INFO] and an INFO
\* event: DENY, and the third filter was not consulted
C2_Witness ==
    \E t \in Threads :
        /\ pc[t] = "checked"
        /\ call[t].event = info_ev
        /\ Len(Chain(call[t].filter)) = 3
        /\ filters[Chain(call[t].filter)[1]] = StringMatchFilter_init
        /\ filters[Chain(call[t].filter)[2]] = DenyAllFilter_new
        /\ filters[Chain(call[t].filter)[3]] = LogLevelMatchFilter_INFO
        /\ ret[t] = DENY
        /\ consulted[t] = SubSeq(Chain(call[t].filter), 1, 2)

\* C3 (as stated): after head.appendFilter(newTail), newTail is the last
\* element of the chain starting at head.
C3_NewTailIsLast ==
    \A t \in Threads :
        (pc[t] = "appended" /\ call[t].filter # Null) =>
            LET chain == Chain(call[t].this)
            IN  chain[Len(chain)] = call[t].filter

IsPrefix(s, r) == Len(s) <= Len(r) /\ s = SubSeq(r, 1, Len(s))

\* C3 (amended): head.appendFilter(newTail), for a newTail whose chain
\* shares no filter with head's, leaves as the chain starting at head its
\* previous chain followed by newTail and newTail's own successors, every
\* order unchanged; newTail is then the last element exactly when it has
\* no successor.  No step removes or reorders the filters of any chain (a
\* chain only grows at its end), so the chain lists the filters appended to
\* a head in the order of the calls.
C3_AppendConcatenates ==
    [][/\ \A t \in Threads :
            (pc[t] = "append" /\ pc'[t] = "appended" /\ call[t].filter # Null)
            => LET before == ChainIn(next, call[t].this)
                   after == ChainIn(next', call[t].this)
               IN  /\ after = before \o ChainIn(next, call[t].filter)
                   /\ ChainIn(next', call[t].filter)
                         = ChainIn(next, call[t].filter)
                   /\ after[Len(after)] = call[t].filter
                         <=> next[call[t].filter] = Null
       /\ \A h \in Constructed :
            IsPrefix(ChainIn(next, h), ChainIn(next', h))]_vars

\* a filter that has a successor was appended: it is not the last element
C3_Witness ==
    \E t \in Threads :
        /\ pc[t] = "appended"
        /\ call[t].filter # Null
        /\ next[call[t].filter] # Null
        /\ Len(Chain(call[t].this)) = 3
        /\ Chain(call[t].this)[2] = call[t].filter

\* ------------------------------------------------- claims about decide
\* The filter and the event of thread t's completed direct decide call.
DecidedOn(t, kind) ==
    pc[t] = "decided" /\ filters[call[t].this].kind = kind
ThisOf(t) == filters[call[t].this]
EventOf(t) == call[t].event
OnMatch(this) == IF this.acceptOnMatch THEN ACCEPT ELSE DENY
OnMismatch(this) == IF this.acceptOnMatch THEN DENY ELSE ACCEPT

DefaultFilters ==
    {DenyAllFilter_new, LogLevelMatchFilter_init, LogLevelRangeFilter_init,
     StringMatchFilter_init, NDCMatchFilter_init, MDCMatchFilter_init}

\* C4 (as stated): decide on the default-constructed configuration of every
\* filter variant returns NEUTRAL for every event.
C4_DefaultIsNeutral ==
    \A t \in Threads :
        (pc[t] = "decided" /\ ThisOf(t) \in DefaultFilters) => ret[t] = NEUTRAL

\* C4 (amended): decide on the default-constructed configuration returns
\* NEUTRAL for every event for LogLevelMatch, StringMatch, NDCMatch and
\* MDCMatch; the default DenyAll returns DENY and the default LogLevelRange
\* (no bound, acceptOnMatch true) returns ACCEPT for every event.
C4_DefaultDecide ==
    \A t \in Threads :
        (pc[t] = "decided" /\ ThisOf(t) \in DefaultFilters) =>
            ret[t] = CASE ThisOf(t).kind = "DenyAll" -> DENY
                       [] ThisOf(t).kind = "LogLevelRange" -> ACCEPT
                       [] OTHER -> NEUTRAL

C4_Witness ==
    \E t \in Threads :
        /\ pc[t] = "decided"
        /\ ThisOf(t) = StringMatchFilter_init
        /\ ~empty(EventOf(t).message)
        /\ ret[t] = NEUTRAL

\* C5: LogLevelMatch.decide returns NEUTRAL when logLevelToMatch is unset;
\* otherwise ACCEPT (acceptOnMatch) or DENY (not acceptOnMatch) exactly when
\* the event level equals logLevelToMatch, and NEUTRAL for every other level.
C5_LogLevelMatch ==
    \A t \in Threads :
        DecidedOn(t, "LogLevelMatch") =>
            LET this == ThisOf(t)
                level == EventOf(t).level
            IN  /\ this.logLevelToMatch = NOT_SET_LOG_LEVEL => ret[t] = NEUTRAL
                /\ this.logLevelToMatch # NOT_SET_LOG_LEVEL =>
                      /\ level = this.logLevelToMatch => ret[t] = OnMatch(this)
                      /\ level # this.logLevelToMatch => ret[t] = NEUTRAL

C5_Witness ==
    \E t \in Threads :
        /\ DecidedOn(t, "LogLevelMatch")
        /\ ~ThisOf(t).acceptOnMatch
        /\ ThisOf(t).logLevelToMatch = INFO_LOG_LEVEL
        /\ EventOf(t).level = INFO_LOG_LEVEL
        /\ ret[t] = DENY

\* C6: LogLevelRange.decide returns DENY exactly when logLevelMin is set and
\* the event level is strictly below it, or logLevelMax is set and the event
\* level is strictly above it; for every other event it returns ACCEPT if
\* acceptOnMatch and NEUTRAL if not.
OutOfRange(this, level) ==
    \/ this.logLevelMin # NOT_SET_LOG_LEVEL /\ level < this.logLevelMin
    \/ this.logLevelMax # NOT_SET_LOG_LEVEL /\ level > this.logLevelMax

C6_LogLevelRange ==
    \A t \in Threads :
        DecidedOn(t, "LogLevelRange") =>
            LET this == ThisOf(t)
                level == EventOf(t).level
            IN  /\ ret[t] = DENY <=> OutOfRange(this, level)
                /\ ~OutOfRange(this, level) =>
                      ret[t] = IF this.acceptOnMatch THEN ACCEPT ELSE NEUTRAL

C6_Witness ==
    \E t \in Threads :
        /\ DecidedOn(t, "LogLevelRange")
        /\ ThisOf(t).logLevelMin = WARN_LOG_LEVEL
        /\ ThisOf(t).logLevelMax = ERROR_LOG_LEVEL
        /\ EventOf(t).level = ERROR_LOG_LEVEL
        /\ ~ThisOf(t).acceptOnMatch
        /\ ret[t] = NEUTRAL

\* C7: StringMatch.decide returns NEUTRAL whenever stringToMatch is empty,
\* the message is empty, or stringToMatch is no contiguous substring of the
\* message; when it is one, ACCEPT if acceptOnMatch and DENY if not.
Occurs(m, s) == \E pre, post \in MsgStrings : m = pre \o s \o post

C7_StringMatch ==
    \A t \in Threads :
        DecidedOn(t, "StringMatch") =>
            LET this == ThisOf(t)
                message == EventOf(t).message
            IN  IF \/ this.stringToMatch = <<>>
                   \/ message = <<>>
                   \/ ~Occurs(message, this.stringToMatch)
                THEN ret[t] = NEUTRAL
                ELSE ret[t] = OnMatch(this)

C7_Witness ==
    \E t \in Threads :
        /\ DecidedOn(t, "StringMatch")
        /\ ThisOf(t).stringToMatch = <<"b">>
        /\ EventOf(t).message = <<"a", "b">>
        /\ ~ThisOf(t).acceptOnMatch
        /\ ret[t] = DENY

\* C8: NDCMatch.decide returns NEUTRAL if and only if neutralOnEmpty is true
\* and ndcToMatch or the event's NDC string is empty; in every other case:
\* on equality of the two strings (two empty strings are equal) ACCEPT if
\* acceptOnMatch else DENY, on inequality DENY if acceptOnMatch else ACCEPT.
C8_NDCMatch ==
    \A t \in Threads :
        DecidedOn(t, "NDCMatch") =>
            LET this == ThisOf(t)
                ndc == EventOf(t).ndc
                guarded == this.neutralOnEmpty
                           /\ (this.ndcToMatch = <<>> \/ ndc = <<>>)
            IN  /\ ret[t] = NEUTRAL <=> guarded
                /\ ~guarded =>
                      ret[t] = IF ndc = this.ndcToMatch
                               THEN OnMatch(this) ELSE OnMismatch(this)

C8_Witness ==
    \E t \in Threads :
        /\ DecidedOn(t, "NDCMatch")
        /\ ~ThisOf(t).neutralOnEmpty
        /\ ThisOf(t).acceptOnMatch
        /\ ThisOf(t).ndcToMatch = <<>>
        /\ EventOf(t).ndc = <<>>
        /\ ret[t] = ACCEPT

\* C9: MDCMatch.decide, when neutralOnEmpty is true and mdcKeyToMatch or
\* mdcValueToMatch is empty, returns NEUTRAL without any MDC lookup on the
\* event; otherwise it looks up mdcKeyToMatch (once), returns NEUTRAL if
\* neutralOnEmpty is true and the looked-up value is empty, and otherwise
\* ACCEPT/DENY by acceptOnMatch on equality with mdcValueToMatch and the
\* opposite verdict on inequality.
C9_MDCMatch ==
    \A t \in Threads :
        DecidedOn(t, "MDCMatch") =>
            LET this == ThisOf(t)
                value == getMDC(EventOf(t), this.mdcKeyToMatch)
            IN  IF this.neutralOnEmpty
                   /\ (this.mdcKeyToMatch = <<>> \/ this.mdcValueToMatch = <<>>)
                THEN ret[t] = NEUTRAL /\ lookups[t] = <<>>
                ELSE /\ lookups[t] = <<this.mdcKeyToMatch>>
                     /\ ret[t] = IF this.neutralOnEmpty /\ value = <<>>
                                 THEN NEUTRAL
                                 ELSE IF value = this.mdcValueToMatch
                                 THEN OnMatch(this)
                                 ELSE OnMismatch(this)

\* the early return, on an event that does hold a value under the (empty) key
C9_Witness ==
    \E t \in Threads :
        /\ DecidedOn(t, "MDCMatch")
        /\ ThisOf(t).neutralOnEmpty
        /\ ThisOf(t).mdcKeyToMatch = <<>>
        /\ ThisOf(t).mdcValueToMatch = <<"a">>
        /\ EventOf(t).mdc = (<<>> :> <<"a">>)
        /\ ret[t] = NEUTRAL
        /\ lookups[t] = <<>>

\* The event of thread t's decided MDCMatch call holds no value under the
\* filter's configured (non-empty) key.
KeyAbsent(t) ==
    /\ DecidedOn(t, "MDCMatch")
    /\ ThisOf(t).mdcKeyToMatch # <<>>
    /\ ThisOf(t).mdcKeyToMatch \notin DOMAIN EventOf(t).mdc

\* C10 (as stated): with a configured key and no value for it on the event,
\* MDCMatch.decide returns NEUTRAL when neutralOnEmpty is true and DENY when
\* it is false.
C10_AbsentNeutralOrDeny ==
    \A t \in Threads :
        KeyAbsent(t) =>
            ret[t] = IF ThisOf(t).neutralOnEmpty THEN NEUTRAL ELSE DENY

\* C10 (amended): with a configured key and no value for it on the event,
\* MDCMatch.decide returns NEUTRAL when neutralOnEmpty is true; when it is
\* false the absent value compares as the empty string: a non-empty
\* mdcValueToMatch gives DENY if acceptOnMatch else ACCEPT, an empty
\* mdcValueToMatch gives ACCEPT if acceptOnMatch else DENY.
C10_AbsentComparesEmpty ==
    \A t \in Threads :
        KeyAbsent(t) =>
            LET this == ThisOf(t)
            IN  ret[t] = IF this.neutralOnEmpty THEN NEUTRAL
                         ELSE IF this.mdcValueToMatch # <<>>
                         THEN OnMismatch(this)
                         ELSE OnMatch(this)

C10_Witness ==
    \E t \in Threads :
        /\ KeyAbsent(t)
        /\ ~ThisOf(t).neutralOnEmpty
        /\ ~ThisOf(t).acceptOnMatch
        /\ ThisOf(t).mdcValueToMatch # <<>>
        /\ EventOf(t).mdc # <<>>
        /\ ret[t] = ACCEPT

\* ------------------------------------- claims about DenyAll in a chain
\* The positions of chain that hold a DenyAll filter.
DenyAllAt(chain) == {i \in 1..Len(chain) : filters[chain[i]].kind = "DenyAll"}

\* C11: DenyAll.decide returns DENY, and on a chain that contains a DenyAll
\* filter checkFilter returns ACCEPT only if a filter before the DenyAll
\* returned ACCEPT with every filter before that one NEUTRAL, and DENY in
\* every other case; the walk never runs off the end of the chain, so the
\* default ACCEPT is not reached.
C11_DenyAllCatchesAll ==
    \A t \in Threads :
        /\ DecidedOn(t, "DenyAll") => ret[t] = DENY
        /\ (pc[t] = "checked" /\ DenyAllAt(Chain(call[t].filter)) # {}) =>
              LET chain == Chain(call[t].filter)
                  event == call[t].event
                  d == First(DenyAllAt(chain))
                  accepted ==
                      \E i \in 1..(d - 1) :
                          /\ ResultOf(chain[i], event) = ACCEPT
                          /\ \A j \in 1..(i - 1) :
                                ResultOf(chain[j], event) = NEUTRAL
              IN  /\ ret[t] = IF accepted THEN ACCEPT ELSE DENY
                  /\ currentFilter[t] # Null
                  /\ Len(consulted[t]) <= d

\* the chain [StringMatch (default), LogLevelMatch INFO, DenyAll]: an INFO
\* event is accepted before the DenyAll, which is not consulted
C11_Witness ==
    \E t \in Threads :
        /\ pc[t] = "checked"
        /\ call[t].event = info_ev
        /\ Len(Chain(call[t].filter)) = 3
        /\ filters[Chain(call[t].filter)[1]] = StringMatchFilter_init
        /\ filters[Chain(call[t].filter)[2]] = LogLevelMatchFilter_INFO
        /\ filters[Chain(call[t].filter)[3]] = DenyAllFilter_new
        /\ ret[t] = ACCEPT
        /\ Len(consulted[t]) = 2

\* ------------------------------------------ claims about repeated calls
Holding(t) == pc[t] \in {"checked", "decided"}

\* A step of decide or of checkFilter by thread t.
ReadStep(t) ==
    /\ pc[t] \in {"idle", "check"}
    /\ pc'[t] \in {"check", "checked", "decided"}

\* C12: no step of decide or checkFilter changes a filter's configuration
\* or a next link, and for a fixed chain and event any two completed calls
\* of decide on the same filter, or of checkFilter on the same head, return
\* the same result, however many other calls were made in between.
C12_Idempotent ==
    /\ [](\A t, u \in Threads :
            (Holding(t) /\ Holding(u) /\ call[t] = call[u]) => ret[t] = ret[u])
    /\ [][\A t \in Threads :
            ReadStep(t) => (filters' = filters /\ next' = next)]_vars

\* two threads hold the result of the same checkFilter call on a chain of
\* two filters that was walked to its end
C12_Witness ==
    \E t, u \in Threads :
        /\ t # u
        /\ pc[t] = "checked" /\ pc[u] = "checked"
        /\ call[t] = call[u]
        /\ Len(Chain(call[t].filter)) = 2
        /\ Len(consulted[t]) = 2 /\ Len(consulted[u]) = 2
        /\ lookups[t] # <<>>
        /\ ret[t] = ret[u]

\* ------------------------------------------- claims about concurrency
\* What checkFilter returns for head and event when called alone.
SingleThreaded(head, event) ==
    LET chain == Chain(head)
        decisive == Decisive(chain, event)
    IN  IF decisive = {} THEN ACCEPT
        ELSE ResultOf(chain[First(decisive)], event)

\* C13: when several threads run checkFilter concurrently on a shared chain
\* that no thread appends to or reconfigures meanwhile, every call
\* terminates and returns what a single-threaded call returns.
C13_ConcurrentCheckFilter ==
    /\ [](\A t \in Threads :
            pc[t] = "checked" =>
                ret[t] = SingleThreaded(call[t].filter, call[t].event))
    /\ \A t \in Threads : (pc[t] = "check") ~> (pc[t] = "checked")

\* one thread has returned while another is still inside its walk of the
\* same chain of two filters
C13_Witness ==
    \E t, u \in Threads :
        /\ t # u
        /\ pc[t] = "checked" /\ pc[u] = "check"
        /\ call[t].filter = call[u].filter
        /\ Len(Chain(call[t].filter)) = 2
        /\ Len(consulted[t]) = 2
        /\ Len(consulted[u]) = 1

\* ------------------------------------------------ claims about cycles
\* The walk from n along nxt ends in an empty link.
EndsIn(nxt, n) ==
    LET chain == ChainIn(nxt, n) IN nxt[chain[Len(chain)]] = Null
Acyclic(nxt) == \A n \in DOMAIN nxt : EndsIn(nxt, n)
NodesIn(nxt, n) ==
    {ChainIn(nxt, n)[i] : i \in 1..Len(ChainIn(nxt, n))}
Appending(t) == pc[t] = "append"

\* C14 as stated: provided no filter is appended to itself or to a node
\* reachable from itself, the next links reachable from every filter form
\* an acyclic, finite list after any sequence of appendFilter calls.
C14_ProvisoKeepsAcyclic == Acyclic(next)

\* The last filter of the receiver's chain is not in the appended filter's
\* chain.
TailApart(head, filter) ==
    LET chain == Chain(head)
    IN  filter = Null \/ chain[Len(chain)] \notin Nodes(filter)

\* C14, amended: provided no filter is appended to a receiver whose chain
\* ends in that filter or in a node reachable from it, appendFilter keeps
\* the next links acyclic, and on acyclic links every appendFilter call and
\* every checkFilter call terminates.
C14_TailProvisoKeepsAcyclic ==
    /\ [][\A t \in Threads :
            (/\ Appending(t)
             /\ Acyclic(next)
             /\ TailApart(call[t].this, call[t].filter)) => Acyclic(next')]_vars
    /\ \A t \in Threads :
          /\ [](Appending(t) /\ Acyclic(next) => <>(pc[t] = "appended"))
          /\ [](pc[t] = "check" /\ Acyclic(next) => <>(pc[t] = "checked"))

\* a filter with a chain of its own was appended to another filter, and all
\* links are acyclic
C14_Witness ==
    \E t \in Threads :
        /\ pc[t] = "appended"
        /\ call[t].filter # Null
        /\ Len(Chain(call[t].filter)) = 2
        /\ Len(Chain(call[t].this)) = 3
        /\ Acyclic(next)

\* ---------------------------------------- claims about misuse of append
\* The links as they were when the call of thread t that has just returned
\* was made: the call changed only the link it set.
LinksBefore(t) == [next EXCEPT ![currentFilter[t]] = Null]

\* filter is appended to itself or to a node reachable from itself
Misuse(nxt, head, filter) ==
    filter # Null /\ head \in NodesIn(nxt, filter)

\* C15 as stated: an appendFilter call that appends a filter to itself or
\* to a node reachable from itself never returns.
C15_MisuseNeverReturns ==
    \A t \in Threads :
        pc[t] = "appended" =>
            ~Misuse(LinksBefore(t), call[t].this, call[t].filter)

\* C15, amended: an appendFilter call fails to terminate exactly when the
\* walk from its receiver never reaches an empty link; a call that appends
\* a filter to itself or to a node reachable from itself, on a receiver
\* whose chain still ends in an empty link, returns and leaves the
\* receiver's chain cyclic.
C15_MisuseMakesCycle ==
    /\ [](\A t \in Threads :
            pc[t] = "appended" =>
                /\ EndsIn(LinksBefore(t), call[t].this)
                /\ Misuse(LinksBefore(t), call[t].this, call[t].filter)
                      => ~EndsIn(next, call[t].this))
    /\ [][\A t \in Threads :
            (Appending(t) /\ ~EndsIn(next, call[t].this))
                => pc'[t] = "append"]_vars
    /\ \A t \in Threads :
          [](Appending(t) /\ EndsIn(next, call[t].this)
                => <>(pc[t] = "appended"))

\* a filter was appended to a node reachable from itself and the call has
\* returned, leaving a cycle through both
C15_Witness ==
    \E t \in Threads :
        /\ pc[t] = "appended"
        /\ call[t].filter # call[t].this
        /\ Misuse(LinksBefore(t), call[t].this, call[t].filter)
        /\ ~EndsIn(next, call[t].this)

====
